---- MODULE Spec2Model ----
(***************************************************************************)
(* Model of dataGriff/hand-counter: the HandCounter pipeline               *)
(* (src/hand_counter.py) and the /analyze handler (src/app.py).            *)
(*                                                                         *)
(* Boxes are tuples <<x, y, w, h>> of integers.  Real-valued quantities    *)
(* are kept exact: a confidence is an integer number of tenths, an IoU or  *)
(* a density is compared by cross-multiplication, a proportion is a pair   *)
(* <<numerator, denominator>>.                                             *)
(***************************************************************************)
EXTENDS Integers, Sequences, FiniteSets, TLC

VARIABLES
    nmsPc,      \* position of the suppression driver
    cands,      \* candidate list handed to non_max_suppression
    nmsKeep,    \* `keep` of the first call: indices into cands
    nmsOut,     \* boxes[keep], weights[keep] of the first call
    nmsOut2,    \* result of calling non_max_suppression on nmsOut
    clsPc,      \* position of the classifier driver
    clsImage,   \* <<img_w, img_h>> of the image given to the classifier
    clsBox,     \* bbox given to detect_raised_hands_heuristic
    clsMetrics, \* what Canny, np.var and np.mean measure on the two bands
    clsOut,     \* [result, exit]: the value returned and the return taken
    pc,         \* position inside process_image
    image,      \* what cv2.imread returned: None or <<img_w, img_h>>
    detected,   \* boxes, weights of hog.detectMultiScale
    boxes,      \* boxes, weights after the filter and the suppression
    hands_raised_count,
    detections, \* the list of {bbox, hands_raised} built by the loop
    exits,      \* per detection, the return the classifier took
    result,     \* the dict returned, or None
    exc,        \* the exception that left process_image, or None
    hPc,        \* position inside analyze_image
    req,        \* the kind of upload the request carries
    temp_path,  \* the handler's temp_path
    files,      \* the temporary files on disk
    decoded,    \* cv2.imdecode returned an image for this request
    coreInvoked,\* process_image was called for this request
    response,   \* status of the response of this request, 0 before there is one
    served      \* requests answered so far

nmsVars == <<nmsPc, cands, nmsKeep, nmsOut, nmsOut2>>
clsVars == <<clsPc, clsImage, clsBox, clsMetrics, clsOut>>
pipeVars == <<pc, image, detected, boxes, hands_raised_count, detections, exits,
              result, exc>>
appVars == <<hPc, req, temp_path, files, decoded, coreInvoked, response, served>>

vars == <<nmsPc, cands, nmsKeep, nmsOut, nmsOut2,
          clsPc, clsImage, clsBox, clsMetrics, clsOut,
          pc, image, detected, boxes, hands_raised_count, detections, exits,
          result, exc,
          hPc, req, temp_path, files, decoded, coreInvoked, response, served>>

None == "None"
\* cv2.imread returning None, and process_image returning nothing
NoImage == <<>>
NoResult == [returned |-> FALSE]

(***************************************************************************)
(* Each specification drives one part of the program; its initial state    *)
(* leaves the variables of the other parts at rest.                        *)
(***************************************************************************)
NoMetrics ==
    [top_edges |-> 0, head_edges |-> 0, top_variance |-> <<0, 1>>,
     head_variance |-> <<0, 1>>, top_mean |-> <<0, 1>>]

Max(a, b) == IF a >= b THEN a ELSE b
Min(a, b) == IF a <= b THEN a ELSE b

(***************************************************************************)
(* Bounds of the model.                                                    *)
(***************************************************************************)
MaxCands == 3
MaxDetected == 3
MaxRequests == 4

(***************************************************************************)
(* non_max_suppression (src/hand_counter.py:111-158)                       *)
(***************************************************************************)
\* overlap_threshold = 0.35 as the fraction 35/100
OverlapThresholdNum == 35
OverlapThresholdDen == 100

X1(b) == b[1]
Y1(b) == b[2]
X2(b) == b[1] + b[3]
Y2(b) == b[2] + b[4]
Area(b) == b[3] * b[4]

Intersection(a, b) ==
    LET w == Max(0, Min(X2(a), X2(b)) - Max(X1(a), X1(b)))
        h == Max(0, Min(Y2(a), Y2(b)) - Max(Y1(a), Y1(b)))
    IN  w * h

Union(a, b) == Area(a) + Area(b) - Intersection(a, b)

\* fault: an IoU of 0 where the union is 0
IoUZeroUnionApart(a, b) ==
    IF Union(a, b) > 0
    THEN Intersection(a, b) * OverlapThresholdDen <= OverlapThresholdNum * Union(a, b)
    ELSE TRUE

\* iou <= overlap_threshold, with iou = np.where(union > 0, intersection / union, 1.0)
IoUWithinThreshold(a, b) ==
    IF Union(a, b) > 0
    THEN Intersection(a, b) * OverlapThresholdDen <= OverlapThresholdNum * Union(a, b)
    ELSE OverlapThresholdDen <= OverlapThresholdNum

\* fault: the comparison of line 156 inverted
SurvivorsInverted(bs, i, rest) ==
    SelectSeq(rest, LAMBDA j : ~IoUWithinThreshold(bs[i], bs[j]))

\* fault: every remaining box dropped, whatever its IoU
SurvivorsNone(bs, i, rest) == <<>>

\* order[np.where(iou <= overlap_threshold)[0] + 1]
Survivors(bs, i, rest) ==
    SelectSeq(rest, LAMBDA j : IoUWithinThreshold(bs[i], bs[j]))

\* fault: `while len(order) > 1`, the last index never kept
RECURSIVE NMSLoopStopsEarly(_, _, _)
NMSLoopStopsEarly(bs, order, keep) ==
    IF Len(order) <= 1
    THEN keep
    ELSE LET i == Head(order)
         IN  NMSLoopStopsEarly(bs, Survivors(bs, i, Tail(order)), Append(keep, i))

\* the while loop: pop order[0] into keep, drop what it suppresses
RECURSIVE NMSLoop(_, _, _)
NMSLoop(bs, order, keep) ==
    IF Len(order) = 0
    THEN keep
    ELSE LET i == Head(order)
         IN  NMSLoop(bs, Survivors(bs, i, Tail(order)), Append(keep, i))

\* fault: the [::-1] of line 133 left out
ArgsortAscending(weights) ==
    LET n == Len(weights)
    IN  { p \in [1..n -> 1..n] :
            /\ \A a, b \in 1..n : a # b => p[a] # p[b]
            /\ \A a \in 1..n : a < n => weights[p[a]] <= weights[p[a + 1]] }

\* weights.flatten().argsort()[::-1]: the default sort is not stable, so any
\* order of the indices that is non-increasing in weight can come out
ArgsortDescending(weights) ==
    LET n == Len(weights)
    IN  { p \in [1..n -> 1..n] :
            /\ \A a, b \in 1..n : a # b => p[a] # p[b]
            /\ \A a \in 1..n : a < n => weights[p[a]] >= weights[p[a + 1]] }

BoxesOf(cs) == [k \in 1..Len(cs) |-> cs[k].box]
WeightsOf(cs) == [k \in 1..Len(cs) |-> cs[k].conf]

\* the keep lists non_max_suppression can build for the candidate list cs
NonMaxSuppressionKeeps(cs) ==
    IF Len(cs) = 0
    THEN { <<>> }
    ELSE { NMSLoop(BoxesOf(cs), order, <<>>) : order \in ArgsortDescending(WeightsOf(cs)) }

\* boxes[keep], weights[keep]
Take(cs, keep) == [k \in 1..Len(keep) |-> cs[keep[k]]]

(***************************************************************************)
(* detect_raised_hands_heuristic (src/hand_counter.py:36-109)              *)
(***************************************************************************)
\* rationals as pairs <<numerator, denominator>>, denominator > 0
RatLess(a, b) == a[1] * b[2] < b[1] * a[2]
RatEq(a, b) == a[1] * b[2] = b[1] * a[2]
RatSub(a, b) == <<a[1] * b[2] - b[1] * a[2], a[2] * b[2]>>
RatAdd(a, b) == <<a[1] * b[2] + b[1] * a[2], a[2] * b[2]>>

TOP_REGION_PCT == <<15, 100>>
HEAD_REGION_START_PCT == <<15, 100>>
HEAD_REGION_END_PCT == <<35, 100>>
MIN_EDGE_DENSITY == <<8, 1000>>
MAX_BRIGHTNESS == <<220, 1>>
RATIO_THRESHOLD == <<75, 100>>
MIN_HEAD_EDGE_DENSITY == <<1, 1000>>
MIN_HEAD_VARIANCE == <<1, 1>>

\* x = max(0, x); y = max(0, y); w = min(w, img_w - x); h = min(h, img_h - y)
ClipBox(bbox, img) ==
    LET x == Max(0, bbox[1])
        y == Max(0, bbox[2])
    IN  <<x, y, Min(bbox[3], img[1] - x), Min(bbox[4], img[2] - y)>>

\* the largest power of two below n (n >= 2)
RECURSIVE Pow2Below(_)
Pow2Below(n) == IF n <= 2 THEN 1 ELSE 2 * Pow2Below((n + 1) \div 2)

\* int(h * pct) in double arithmetic.  The doubles nearest 0.15 and 0.35 lie
\* below them, so the product of a multiple of 20 falls short of the exact
\* integer; it rounds back up to it unless the shortfall exceeds half the
\* spacing of the doubles below that integer, which for 0.35 (7t - t*2^-51 at
\* h = 20t) happens when 4t exceeds the largest power of two below 7t, and for
\* 0.15 (3t - t*2^-53) never.
IntOfProduct(h, pct) ==
    LET exact == (h * pct[1]) \div pct[2]
        t == h \div 20
    IN  IF /\ pct = <<35, 100>>
           /\ h > 0
           /\ h % 20 = 0
           /\ 4 * t > Pow2Below(7 * t)
        THEN exact - 1
        ELSE exact

TopHeight(h) == Max(1, IntOfProduct(h, TOP_REGION_PCT))
HeadStart(h) == IntOfProduct(h, HEAD_REGION_START_PCT)
HeadEnd(h) == IntOfProduct(h, HEAD_REGION_END_PCT)

\* the number of indices a Python slice [start:stop] selects from n
SliceLen(start, stop, n) ==
    LET a == IF start < 0 THEN Max(start + n, 0) ELSE Min(start, n)
        b == IF stop < 0 THEN Max(stop + n, 0) ELSE Min(stop, n)
    IN  Max(0, b - a)

\* pixels of image[y:y+top_height, x:x+w]
TopSize(c, img) ==
    SliceLen(c[2], c[2] + TopHeight(c[4]), img[2]) * SliceLen(c[1], c[1] + c[3], img[1])

\* pixels of image[y+head_start:y+head_end, x:x+w]
HeadSize(c, img) ==
    SliceLen(c[2] + HeadStart(c[4]), c[2] + HeadEnd(c[4]), img[2])
        * SliceLen(c[1], c[1] + c[3], img[1])

\* fault: `and` for the `or` of line 60
ClippedOutBoth(c) == c[3] <= 0 /\ c[4] <= 0

\* if w <= 0 or h <= 0
ClippedOut(c) == c[3] <= 0 \/ c[4] <= 0

\* fault: the check of line 73 left out
RegionsEmptyUnchecked(c, img) == FALSE

\* if top_region.size == 0 or head_region.size == 0
RegionsEmpty(c, img) == TopSize(c, img) = 0 \/ HeadSize(c, img) = 0

\* fault: `and` for the `or` of line 92
DenominatorGuardBoth(head_edge_density, head_variance) ==
    /\ RatLess(head_edge_density, MIN_HEAD_EDGE_DENSITY)
    /\ RatLess(head_variance, MIN_HEAD_VARIANCE)

\* head_edge_density < MIN_HEAD_EDGE_DENSITY or head_variance < MIN_HEAD_VARIANCE
DenominatorGuard(head_edge_density, head_variance) ==
    \/ RatLess(head_edge_density, MIN_HEAD_EDGE_DENSITY)
    \/ RatLess(head_variance, MIN_HEAD_VARIANCE)

\* r * 2^13 mod q
Shifted(r, q) == (r * 2^13) % q

\* The relative error, in units of 2^-52, of the double nearest p / q (p, q > 0),
\* as a rational: with q <= p < 2q the 53-bit significand is p * 2^52 / q
\* rounded to nearest, ties to even (r51 is p * 2^51 mod q, so 2 * r51 \div q is
\* the significand's lowest bit), and scaling by a power of two is exact.
RECURSIVE RoundingError(_, _)
RoundingError(p, q) ==
    IF p >= 2 * q THEN RoundingError(p, 2 * q)
    ELSE IF p < q THEN RoundingError(2 * p, q)
    ELSE LET r51 == (Shifted(Shifted(Shifted(p - q, q), q), q) * 2^12) % q
             r == (2 * r51) % q
             odd == (2 * r51) \div q = 1
             up == 2 * r > q \/ (2 * r = q /\ odd)
         IN  <<IF up THEN q - r ELSE 0 - r, p>>

\* num / den, the quotient of two doubles each the nearest to its rational,
\* rounds below 0.75 although the rationals' quotient is exactly 3/4: the
\* quotient is 0.75 * (1 + (ea - eb) * 2^-52) to first order, and it rounds to
\* the double below 0.75 when it lies under the midpoint 0.75 - 2^-54, that is
\* when ea - eb < -1/3.
QuotientFallsShort(num, den) ==
    LET ea == RoundingError(num[1], num[2])
        eb == RoundingError(den[1], den[2])
        diff == RatSub(ea, eb)
    IN  \/ RatLess(diff, <<0 - 1, 3>>)
        \/ RatEq(diff, <<0 - 1, 3>>) /\ eb[1] < 0

\* num / den < RATIO_THRESHOLD on numpy floats: a zero denominator gives inf
\* or nan, which compares False, and raises nothing; the densities and their
\* quotient are rounded to doubles, which decides the comparison only where
\* the exact quotient equals the threshold
RatioBelowThreshold(num, den) ==
    IF den[1] = 0
    THEN FALSE
    ELSE LET lhs == num[1] * den[2] * RATIO_THRESHOLD[2]
             rhs == RATIO_THRESHOLD[1] * num[2] * den[1]
         IN  \/ lhs < rhs
             \/ lhs = rhs /\ num[1] > 0 /\ QuotientFallsShort(num, den)

\* lines 95-109: the ratios and the decision
Decide(top_edge_density, head_edge_density, m) ==
    LET has_min_activity ==
            /\ RatLess(MIN_EDGE_DENSITY, top_edge_density)
            /\ RatLess(m.top_mean, MAX_BRIGHTNESS)
    IN  /\ has_min_activity
        /\ RatioBelowThreshold(top_edge_density, head_edge_density)
        /\ RatioBelowThreshold(m.top_variance, m.head_variance)

\* lines 76-109: cvtColor (which raises cv2.error on an empty region), Canny,
\* the metrics, the denominator guard and the decision
Analyse(c, img, m) ==
    IF TopSize(c, img) = 0 \/ HeadSize(c, img) = 0
    THEN [result |-> FALSE, exit |-> "cv2.error"]
    ELSE LET top_edge_density == <<m.top_edges, TopSize(c, img)>>
             head_edge_density == <<m.head_edges, HeadSize(c, img)>>
         IN  IF DenominatorGuard(head_edge_density, m.head_variance)
             THEN [result |-> FALSE, exit |-> "guard"]
             ELSE [result |-> Decide(top_edge_density, head_edge_density, m),
                   exit |-> "decided"]

\* the whole function: the value returned and the return statement taken
\* ("clipped" line 61, "empty" line 74, "guard" line 93, "decided" line 105)
DetectRaisedHandsHeuristic(img, bbox, m) ==
    LET c == ClipBox(bbox, img)
    IN  IF ClippedOut(c)
        THEN [result |-> FALSE, exit |-> "clipped"]
        ELSE IF RegionsEmpty(c, img)
             THEN [result |-> FALSE, exit |-> "empty"]
             ELSE Analyse(c, img, m)

\* pixels are read from cvtColor on (line 77)
PixelsExamined(out) == out.exit \in {"guard", "decided", "cv2.error"}

\* the ratios of lines 96-97 are computed
Divided(out) == out.exit = "decided"

(***************************************************************************)
(* Inputs of the classifier specification.                                 *)
(***************************************************************************)
ClsImages == { <<125, 40>>, <<100, 200>> }

ClsBoxes ==
    { <<0, 0, 125, 40>>,     \* bands of 750 and 1000 pixels
      <<0, 0, 100, 200>>,    \* Scenario B: rows 0-30 and 30-70
      <<0, 0, 5, 180>>,      \* int(180 * 0.35) = 62
      <<2, 3, 4, 20>>,
      <<-3, -2, 8, 30>>,     \* starts left of and above the image
      <<-8, 0, 8, 30>>,      \* ends at the left edge: overhang only
      <<0, -30, 8, 10>>,     \* wholly above
      <<130, 0, 5, 20>>,     \* wholly to the right
      <<0, 205, 5, 20>>,     \* wholly below
      <<125, 40, 4, 4>>,     \* starts at the corner
      <<3, 3, 0, 20>>,       \* zero width
      <<3, 3, 5, 0>>,        \* zero height
      <<0, 0, -3, 20>>,      \* negative width
      <<0, 0, 5, -4>>,       \* negative height
      <<0, 0, 5, 1>>,        \* too short for a head band
      <<0, 0, 5, 2>>,
      <<0, 0, 5, 3>>,
      <<0, 0, 5, 6>>,
      <<0, 0, 5, 7>> }

EdgeCounts == {0, 1, 6, 7, 9, 16}
Variances == { <<0, 1>>, <<3, 4>>, <<1, 1>>, <<200, 1>>, <<300, 1>>, <<400, 1>> }
Means == { <<219, 1>>, <<220, 1>> }

Metrics(E, V, M) ==
    [top_edges : E, head_edges : E, top_variance : V, head_variance : V, top_mean : M]

InitClassifier ==
    /\ clsPc = "input"
    /\ clsImage \in ClsImages
    /\ clsBox \in ClsBoxes
    /\ clsMetrics = NoMetrics
    /\ clsOut = None
    /\ nmsPc = "unused"
    /\ cands = <<>>
    /\ nmsKeep = <<>>
    /\ nmsOut = <<>>
    /\ nmsOut2 = <<>>
    /\ pc = "unused"
    /\ image = NoImage
    /\ detected = <<>>
    /\ boxes = <<>>
    /\ hands_raised_count = 0
    /\ detections = <<>>
    /\ exits = <<>>
    /\ result = NoResult
    /\ exc = None
    /\ hPc = "unused"
    /\ req = None
    /\ temp_path = None
    /\ files = {}
    /\ decoded = FALSE
    /\ coreInvoked = FALSE
    /\ response = 0
    /\ served = 0

\* a band holds no more edge pixels than pixels
MetricsFit(m, img, bbox) ==
    /\ m.top_edges <= TopSize(ClipBox(bbox, img), img)
    /\ m.head_edges <= HeadSize(ClipBox(bbox, img), img)

\* one call of detect_raised_hands_heuristic(image, bbox)
Classify ==
    /\ clsPc = "input"
    /\ \E m \in Metrics(EdgeCounts, Variances, Means) :
          /\ MetricsFit(m, clsImage, clsBox)
          /\ clsMetrics' = m
          /\ clsOut' = DetectRaisedHandsHeuristic(clsImage, clsBox, m)
    /\ clsPc' = "classified"
    /\ UNCHANGED <<clsImage, clsBox>>
    /\ UNCHANGED <<nmsVars, pipeVars, appVars>>

NextClassifier == Classify

SpecClassifier == InitClassifier /\ [][NextClassifier]_vars

(***************************************************************************)
(* Properties of detect_raised_hands_heuristic.                            *)
(***************************************************************************)
\* C6: a box whose clipped width or clipped height is <= 0 (negative
\* coordinates and boxes wholly outside the image included) is classified
\* false, and no pixel is examined.
ClippedBoxYieldsFalse ==
    clsPc = "classified" =>
        LET c == ClipBox(clsBox, clsImage)
        IN  (c[3] <= 0 \/ c[4] <= 0) =>
                (clsOut.result = FALSE /\ ~PixelsExamined(clsOut))

\* a box wholly to the right of the image, and one of negative width, were
\* classified
ClippedBoxWitness ==
    /\ clsPc = "classified"
    /\ clsImage = <<125, 40>>
    /\ clsBox \in { <<130, 0, 5, 20>>, <<0, 0, -3, 20>> }
    /\ clsOut = [result |-> FALSE, exit |-> "clipped"]

\* C7: when head_edge_density < 0.001 or head_variance < 1 the classifier
\* returns false whatever the top band holds, and divides by neither.
DenominatorGuardForcesFalse ==
    (clsPc = "classified" /\ PixelsExamined(clsOut)) =>
        LET head_edge_density ==
                <<clsMetrics.head_edges, HeadSize(ClipBox(clsBox, clsImage), clsImage)>>
        IN  (\/ RatLess(head_edge_density, <<1, 1000>>)
             \/ RatLess(clsMetrics.head_variance, <<1, 1>>))
                => (clsOut.result = FALSE /\ ~Divided(clsOut))

\* the guard fired on the head variance alone, under a top band that passes
\* the activity gate and both ratio tests
DenominatorGuardWitness ==
    /\ clsPc = "classified"
    /\ clsBox = <<0, 0, 125, 40>>
    /\ clsImage = <<125, 40>>
    /\ clsMetrics = [top_edges |-> 7, head_edges |-> 16, top_variance |-> <<0, 1>>,
                     head_variance |-> <<3, 4>>, top_mean |-> <<219, 1>>]
    /\ clsOut = [result |-> FALSE, exit |-> "guard"]

\* C11: a box that passes the clipping and the denominator guard is classified
\* true exactly when top_edge_density > 0.008, top_mean < 220,
\* top_edge_density / head_edge_density < 0.75 and top_variance / head_variance
\* < 0.75, each strictly; a ratio of exactly 0.75, a top edge density of exactly
\* 0.008 or of 0, and a top mean of exactly 220 give false.  The densities are
\* the edge-pixel counts over the band sizes and the ratios their quotients.
DecisionRule ==
    (clsPc = "classified" /\ clsOut.exit = "decided") =>
        LET c == ClipBox(clsBox, clsImage)
            te == clsMetrics.top_edges
            ts == TopSize(c, clsImage)
            he == clsMetrics.head_edges
            hs == HeadSize(c, clsImage)
            tv == clsMetrics.top_variance
            hv == clsMetrics.head_variance
            tm == clsMetrics.top_mean
        IN  /\ clsOut.result <=>
                  /\ te * 1000 > 8 * ts
                  /\ tm[1] < 220 * tm[2]
                  /\ te * hs * 100 < 75 * ts * he
                  /\ tv[1] * hv[2] * 100 < 75 * tv[2] * hv[1]
            /\ te * hs * 100 = 75 * ts * he => ~clsOut.result
            /\ tv[1] * hv[2] * 100 = 75 * tv[2] * hv[1] => ~clsOut.result
            /\ te * 1000 = 8 * ts => ~clsOut.result
            /\ te = 0 => ~clsOut.result
            /\ tm[1] = 220 * tm[2] => ~clsOut.result

\* C12: for a clipped box of height h > 0 the top band is rows [0, floor(0.15h))
\* and the head band rows [floor(0.15h), floor(0.35h)) of the box, so the bands
\* share no row and the top band lies above the head band.
BandsPartitionBox ==
    (clsPc = "classified" /\ clsOut.exit # "clipped") =>
        LET h == ClipBox(clsBox, clsImage)[4]
        IN  /\ TopHeight(h) = (15 * h) \div 100
            /\ HeadStart(h) = (15 * h) \div 100
            /\ HeadEnd(h) = (35 * h) \div 100
            /\ TopHeight(h) <= HeadStart(h)

\* C16: the box that is analysed is the intersection of the original box with
\* the image: after clipping it lies inside the image and inside the original
\* box, so a box starting left of or above the image is trimmed by its overhang
\* and reaches no further right or down than it did.
ClippedBoxIsIntersection ==
    (clsPc = "classified" /\ clsOut.exit # "clipped") =>
        LET c == ClipBox(clsBox, clsImage)
        IN  /\ 0 <= c[1] /\ c[1] + c[3] <= clsImage[1]
            /\ 0 <= c[2] /\ c[2] + c[4] <= clsImage[2]
            /\ clsBox[1] <= c[1] /\ c[1] + c[3] <= clsBox[1] + clsBox[3]
            /\ clsBox[2] <= c[2] /\ c[2] + c[4] <= clsBox[2] + clsBox[4]
            /\ c[3] = Min(clsBox[1] + clsBox[3], clsImage[1]) - Max(clsBox[1], 0)
            /\ c[4] = Min(clsBox[2] + clsBox[4], clsImage[2]) - Max(clsBox[2], 0)

(***************************************************************************)
(* Inputs of the suppression specification.                                *)
(***************************************************************************)
\* Scenario C of the specification (BoxA, BoxB), a box that BoxB suppresses and
\* whose IoU with BoxA is exactly 0.35 (2800 / 8000), and two zero-area boxes
BoxA == <<10, 10, 50, 100>>
BoxB == <<15, 12, 50, 100>>
BoxC == <<32, 10, 58, 100>>
BoxZ1 == <<0, 0, 0, 0>>
BoxZ2 == <<5, 5, 0, 3>>

NmsBoxes == {BoxA, BoxB, BoxC, BoxZ1, BoxZ2}
NmsConfs == {5, 9}

Candidate(B, W) == [box : B, conf : W]

SeqsUpTo(S, n) == UNION { [1..k -> S] : k \in 0..n }

InitNMS ==
    /\ nmsPc = "input"
    /\ cands \in SeqsUpTo(Candidate(NmsBoxes, NmsConfs), MaxCands)
    /\ nmsKeep = <<>>
    /\ nmsOut = <<>>
    /\ nmsOut2 = <<>>
    /\ clsPc = "unused"
    /\ clsImage = <<0, 0>>
    /\ clsBox = <<0, 0, 0, 0>>
    /\ clsMetrics = NoMetrics
    /\ clsOut = None
    /\ pc = "unused"
    /\ image = NoImage
    /\ detected = <<>>
    /\ boxes = <<>>
    /\ hands_raised_count = 0
    /\ detections = <<>>
    /\ exits = <<>>
    /\ result = NoResult
    /\ exc = None
    /\ hPc = "unused"
    /\ req = None
    /\ temp_path = None
    /\ files = {}
    /\ decoded = FALSE
    /\ coreInvoked = FALSE
    /\ response = 0
    /\ served = 0

Suppress ==
    /\ nmsPc = "input"
    /\ \E keep \in NonMaxSuppressionKeeps(cands) :
          /\ nmsKeep' = keep
          /\ nmsOut' = Take(cands, keep)
    /\ nmsPc' = "suppressed"
    /\ UNCHANGED <<cands, nmsOut2>>
    /\ UNCHANGED <<clsVars, pipeVars, appVars>>

Resuppress ==
    /\ nmsPc = "suppressed"
    /\ \E keep \in NonMaxSuppressionKeeps(nmsOut) :
          nmsOut2' = Take(nmsOut, keep)
    /\ nmsPc' = "resuppressed"
    /\ UNCHANGED <<cands, nmsKeep, nmsOut>>
    /\ UNCHANGED <<clsVars, pipeVars, appVars>>

NextNMS == Suppress \/ Resuppress

SpecNMS == InitNMS /\ [][NextNMS]_vars

(***************************************************************************)
(* Properties of non_max_suppression.                                      *)
(***************************************************************************)
Range(f) == { f[k] : k \in DOMAIN f }
BoxSet(cs) == { cs[k].box : k \in DOMAIN cs }

\* C1: every pair of distinct kept boxes of a suppression output has
\* IoU <= overlap_threshold (IoU = intersection/union, 1.0 when the union is 0).
NMSOverlapInvariant ==
    nmsPc # "input" =>
        \A a, b \in 1..Len(nmsOut) :
            a # b => IoUWithinThreshold(nmsOut[a].box, nmsOut[b].box)

\* a suppression that kept at least two boxes and dropped at least one
NMSOverlapWitness ==
    /\ nmsPc = "suppressed"
    /\ Len(nmsOut) >= 2
    /\ Len(nmsOut) < Len(cands)

\* C2: suppressing the output of a suppression returns the same set of boxes
\* (and as many of them), ties in confidence included.
NMSIdempotent ==
    nmsPc = "resuppressed" =>
        /\ BoxSet(nmsOut2) = BoxSet(nmsOut)
        /\ Len(nmsOut2) = Len(nmsOut)

\* a second suppression of an output that holds two boxes of equal confidence,
\* after a first one that dropped a candidate
NMSIdempotentWitness ==
    /\ nmsPc = "resuppressed"
    /\ Len(nmsOut) < Len(cands)
    /\ \E a, b \in 1..Len(nmsOut) : a # b /\ nmsOut[a].conf = nmsOut[b].conf

\* C8: a candidate of maximal confidence is kept, and every other candidate whose
\* IoU with it exceeds the threshold is dropped; of Scenario C's two boxes only
\* the one of confidence 0.9 survives.
NMSKeepsMaximum ==
    (nmsPc # "input" /\ Len(cands) > 0) =>
        /\ \E m \in 1..Len(cands) :
              /\ \A j \in 1..Len(cands) : cands[j].conf <= cands[m].conf
              /\ m \in Range(nmsKeep)
              /\ \A j \in 1..Len(cands) :
                    (j # m /\ ~IoUWithinThreshold(cands[m].box, cands[j].box))
                        => j \notin Range(nmsKeep)
        /\ \A p \in {<<1, 2>>, <<2, 1>>} :
              (Len(cands) = 2 /\ cands[p[1]] = [box |-> BoxA, conf |-> 9]
                              /\ cands[p[2]] = [box |-> BoxB, conf |-> 5])
                  => nmsOut = << [box |-> BoxA, conf |-> 9] >>

\* Scenario C has been suppressed
NMSKeepsMaximumWitness ==
    /\ nmsPc = "suppressed"
    /\ cands = << [box |-> BoxB, conf |-> 5], [box |-> BoxA, conf |-> 9] >>
    /\ nmsKeep = <<2>>

\* C13: a remaining box whose union with the popped box is 0 (both of zero
\* area) is suppressed wherever the two lie, the call returns without a
\* division error, and at most one zero-area box is kept.
ZeroUnionSuppressed ==
    nmsPc # "input" =>
        /\ Len(nmsOut) = Len(nmsKeep)
        /\ Cardinality({ k \in 1..Len(nmsOut) : Area(nmsOut[k].box) = 0 }) <= 1
        /\ \A a, b \in Range(nmsKeep) :
              a # b => Union(cands[a].box, cands[b].box) > 0
        /\ \A j \in 1..Len(cands) :
              (Area(cands[j].box) = 0 /\ j \notin Range(nmsKeep)) =>
                  \E i \in Range(nmsKeep) :
                      /\ Union(cands[i].box, cands[j].box) = 0
                      /\ cands[i].conf >= cands[j].conf

\* two zero-area boxes at different places and a third box were suppressed:
\* the zero-area box of higher confidence is kept, the other one dropped
ZeroUnionSuppressedWitness ==
    /\ nmsPc = "suppressed"
    /\ cands = << [box |-> BoxZ2, conf |-> 5], [box |-> BoxA, conf |-> 5],
                  [box |-> BoxZ1, conf |-> 9] >>
    /\ nmsKeep \in { <<3, 2>> }

ConfidenceThreshold == 3

\* fault: `>=` for the `>` of line 187
ConfidenceFilterInclusive(cs) == SelectSeq(cs, LAMBDA c : c.conf >= ConfidenceThreshold)

\* mask = weights.flatten() > confidence_threshold; boxes[mask], weights[mask]
ConfidenceFilter(cs) == SelectSeq(cs, LAMBDA c : c.conf > ConfidenceThreshold)

\* fault: the increment of line 203 outside its `if`
CountRaisedAlways(count, hands_raised) == count + 1

\* if hands_raised: hands_raised_count += 1
CountRaised(count, hands_raised) == IF hands_raised THEN count + 1 ELSE count

\* fault: the `* 100` of line 212 left out
HandsRaisedFraction(count, total) ==
    IF total > 0 THEN <<count, total>> ELSE <<0, 1>>

\* hands_raised_count / total_people * 100 if total_people > 0 else 0
HandsRaisedProportion(count, total) ==
    IF total > 0 THEN <<count * 100, total>> ELSE <<0, 1>>

\* 100 - hands_raised_proportion
HandsDownProportion(raised_proportion) == RatSub(<<100, 1>>, raised_proportion)

\* the dict of lines 216-223
Result(total, count, ds) ==
    [total_people |-> total,
     hands_raised |-> count,
     hands_down |-> total - count,
     hands_raised_proportion |-> HandsRaisedProportion(count, total),
     hands_down_proportion |-> HandsDownProportion(HandsRaisedProportion(count, total)),
     detections |-> ds]

(***************************************************************************)
(* Inputs of the pipeline specification.                                   *)
(***************************************************************************)
PipeImages == { <<100, 100>> }

PipeBoxes ==
    { <<10, 10, 20, 40>>,    \* inside the image: bands of 120 and 160 pixels
      <<120, 0, 20, 40>>,    \* wholly outside
      <<50, 50, 10, 2>> }    \* too short for a head band

PipeConfs == {3, 4, 9}

PipeMetrics ==
    [top_edges : {0, 1}, head_edges : {0, 16}, top_variance : { <<0, 1>> },
     head_variance : { <<0, 1>>, <<4, 1>> }, top_mean : { <<219, 1>> }]

InitPipeline ==
    /\ pc = "load"
    /\ image = NoImage
    /\ detected = <<>>
    /\ boxes = <<>>
    /\ hands_raised_count = 0
    /\ detections = <<>>
    /\ exits = <<>>
    /\ result = NoResult
    /\ exc = None
    /\ hPc = "unused"
    /\ req = None
    /\ temp_path = None
    /\ files = {}
    /\ decoded = FALSE
    /\ coreInvoked = FALSE
    /\ response = 0
    /\ served = 0
    /\ nmsPc = "unused"
    /\ cands = <<>>
    /\ nmsKeep = <<>>
    /\ nmsOut = <<>>
    /\ nmsOut2 = <<>>
    /\ clsPc = "unused"
    /\ clsImage = <<0, 0>>
    /\ clsBox = <<0, 0, 0, 0>>
    /\ clsMetrics = NoMetrics
    /\ clsOut = None

\* lines 171-173: cv2.imread, ValueError when it returns None
LoadImage ==
    /\ pc = "load"
    /\ \E img \in {NoImage} \cup PipeImages :
          /\ image' = img
          /\ IF img = NoImage
             THEN pc' = "raised" /\ exc' = "ValueError"
             ELSE pc' = "detect" /\ exc' = exc
    /\ UNCHANGED <<detected, boxes, hands_raised_count, detections, exits, result>>
    /\ UNCHANGED <<nmsVars, clsVars, appVars>>

\* lines 176-182: hog.detectMultiScale
DetectMultiScale ==
    /\ pc = "detect"
    /\ detected' \in SeqsUpTo(Candidate(PipeBoxes, PipeConfs), MaxDetected)
    /\ pc' = "filter"
    /\ UNCHANGED <<image, boxes, hands_raised_count, detections, exits, result, exc>>
    /\ UNCHANGED <<nmsVars, clsVars, appVars>>

\* lines 184-197: the confidence filter, then the suppression of what is left
FilterAndSuppress ==
    /\ pc = "filter"
    /\ LET filtered == IF Len(detected) > 0 THEN ConfidenceFilter(detected) ELSE detected
       IN  IF Len(filtered) > 0
           THEN \E keep \in NonMaxSuppressionKeeps(filtered) :
                    boxes' = Take(filtered, keep)
           ELSE boxes' = filtered
    /\ hands_raised_count' = 0
    /\ detections' = <<>>
    /\ pc' = "classify"
    /\ UNCHANGED <<image, detected, exits, result, exc>>
    /\ UNCHANGED <<nmsVars, clsVars, appVars>>

\* lines 200-209: one turn of the loop over boxes
ClassifyNext ==
    /\ pc = "classify"
    /\ Len(detections) < Len(boxes)
    /\ LET bbox == boxes[Len(detections) + 1].box
       IN  \E m \in PipeMetrics :
              /\ MetricsFit(m, image, bbox)
              /\ LET out == DetectRaisedHandsHeuristic(image, bbox, m)
                 IN  IF out.exit = "cv2.error"
                     THEN /\ pc' = "raised"
                          /\ exc' = "cv2.error"
                          /\ UNCHANGED <<hands_raised_count, detections, exits>>
                     ELSE /\ hands_raised_count' = CountRaised(hands_raised_count, out.result)
                          /\ detections' = Append(detections,
                                 [bbox |-> bbox, hands_raised |-> out.result])
                          /\ exits' = Append(exits, out.exit)
                          /\ UNCHANGED <<pc, exc>>
    /\ UNCHANGED <<image, detected, boxes, result>>
    /\ UNCHANGED <<nmsVars, clsVars, appVars>>

\* lines 211-223: the proportions and the dict returned
ReturnResult ==
    /\ pc = "classify"
    /\ Len(detections) = Len(boxes)
    /\ result' = Result(Len(boxes), hands_raised_count, detections)
    /\ pc' = "returned"
    /\ UNCHANGED <<image, detected, boxes, hands_raised_count, detections, exits, exc>>
    /\ UNCHANGED <<nmsVars, clsVars, appVars>>

NextPipeline ==
    \/ LoadImage
    \/ DetectMultiScale
    \/ FilterAndSuppress
    \/ ClassifyNext
    \/ ReturnResult

SpecPipeline == InitPipeline /\ [][NextPipeline]_vars

(***************************************************************************)
(* Properties of process_image.                                            *)
(***************************************************************************)
Returned == pc = "returned"

\* C3: a result with total_people = 0 has both proportions 0.
ZeroPeopleBothProportionsZero ==
    (Returned /\ result.total_people = 0) =>
        /\ RatEq(result.hands_raised_proportion, <<0, 1>>)
        /\ RatEq(result.hands_down_proportion, <<0, 1>>)

\* C4: a result with total_people > 0 has hands_raised_proportion =
\* hands_raised / total_people * 100 and hands_down_proportion =
\* hands_down / total_people * 100, and the two sum to 100.
ProportionLaw ==
    (Returned /\ result.total_people > 0) =>
        /\ RatEq(result.hands_raised_proportion,
                 <<result.hands_raised * 100, result.total_people>>)
        /\ RatEq(result.hands_down_proportion,
                 <<result.hands_down * 100, result.total_people>>)
        /\ RatEq(RatAdd(result.hands_raised_proportion, result.hands_down_proportion),
                 <<100, 1>>)

\* a result of three people, one with hands raised
ProportionLawWitness ==
    /\ Returned
    /\ result.total_people = 3
    /\ result.hands_raised = 1
    /\ result.hands_raised_proportion = <<100, 3>>

\* C5: in a result hands_raised + hands_down = total_people, 0 <= hands_raised <=
\* total_people, total_people is the length of detections and hands_raised the
\* number of detections flagged hands_raised.
CountsInvariant ==
    Returned =>
        /\ result.hands_raised + result.hands_down = result.total_people
        /\ 0 <= result.hands_raised
        /\ result.hands_raised <= result.total_people
        /\ result.total_people = Len(result.detections)
        /\ result.hands_raised =
              Cardinality({ k \in 1..Len(result.detections) :
                              result.detections[k].hands_raised })

\* a result of two or more people, some with hands raised and some without
CountsWitness ==
    /\ Returned
    /\ result.total_people >= 2
    /\ result.hands_raised >= 1
    /\ result.hands_down >= 1

Degenerate == {"clipped", "empty", "guard"}

\* C9: process_image raises exactly when the image cannot be loaded (a
\* ValueError, and no result); for an image that loads it runs to its return and
\* raises nothing, and a box that is clipped away, has an empty band or a
\* near-zero head denominator is classified false.
RaisesOnlyOnLoadFailure ==
    /\ pc = "raised" => (image = NoImage /\ exc = "ValueError" /\ result = NoResult)
    /\ (image = NoImage /\ pc \notin {"unused", "load"}) => pc = "raised"
    /\ Returned => (exc = None /\ result # NoResult /\ image # NoImage)
    /\ (pc = "classify" /\ Len(detections) < Len(boxes)) =>
          \E m \in PipeMetrics : MetricsFit(m, image, boxes[Len(detections) + 1].box)
    /\ \A k \in 1..Len(exits) :
          exits[k] \in Degenerate => detections[k].hands_raised = FALSE

\* a result whose three boxes were clipped away, too short and guarded
RaisesOnlyOnLoadFailureWitness ==
    /\ Returned
    /\ Range(exits) = Degenerate

\* how often the candidate c occurs in the list cs
Occurrences(cs, c) == Cardinality({ k \in 1..Len(cs) : cs[k] = c })

\* the rearrangements of the list cs
Rearranged(cs) ==
    { [k \in 1..Len(cs) |-> cs[p[k]]] :
        p \in { q \in [1..Len(cs) -> 1..Len(cs)] :
                  \A a, b \in 1..Len(cs) : a # b => q[a] # q[b] } }

\* C14: the confidence filter keeps exactly the candidates of confidence > 0.3
\* (one at exactly 0.3 is dropped), every detection of a result is a detector
\* candidate of confidence > 0.3, and what the filter keeps does not depend on
\* the order of the candidates.
ConfidenceFilterExact ==
    pc \in {"filter", "classify", "returned"} =>
        LET kept == ConfidenceFilter(detected)
            above == { k \in 1..Len(detected) : detected[k].conf > 3 }
        IN  /\ Len(kept) = Cardinality(above)
            /\ \A k \in 1..Len(kept) : kept[k].conf > 3 /\ kept[k] \in Range(detected)
            /\ \A ds \in Rearranged(detected) :
                  \A c \in Range(detected) :
                      Occurrences(ConfidenceFilter(ds), c) = Occurrences(kept, c)
            /\ pc \in {"classify", "returned"} =>
                  /\ \A k \in 1..Len(boxes) : boxes[k] \in Range(kept)
                  /\ \A k \in 1..Len(detections) :
                        \E j \in above : detected[j].box = detections[k].bbox
            /\ Returned =>
                  \A k \in 1..Len(result.detections) :
                      \E j \in above : detected[j].box = result.detections[k].bbox

\* a result for two candidates, one at exactly 0.3 and one at 0.4: only the
\* second is a detection
ConfidenceFilterWitness ==
    /\ Returned
    /\ detected = << [box |-> <<10, 10, 20, 40>>, conf |-> 3],
                     [box |-> <<50, 50, 10, 2>>, conf |-> 4] >>
    /\ Len(result.detections) = 1
    /\ result.detections[1].bbox = <<50, 50, 10, 2>>

(***************************************************************************)
(* analyze_image, the /analyze handler (src/app.py:104-162)                *)
(***************************************************************************)
\* what a request can carry: a body over MAX_CONTENT_LENGTH (reading
\* request.files raises), no 'image' part, an 'image' part with an empty
\* filename, bytes cv2.imdecode cannot decode, an image
RequestKinds == {"oversized", "missing", "unnamed", "undecodable", "valid"}

TempNames == {"tmp1.jpg", "tmp2.jpg"}

\* cv2.imdecode returns an image, not None
Decodes(kind) == kind = "valid"

\* fault: the check of line 128 left out
ImageIsNoneSkipped(image_decoded) == FALSE

\* line 128: if image is None
ImageIsNone(image_decoded) == ~image_decoded

\* fault: the finally block removes nothing
FilesAfterCleanupSkipped(fs, path) == fs

\* if temp_path and os.path.exists(temp_path): os.remove(temp_path)
FilesAfterCleanup(fs, path) ==
    IF path # None /\ path \in fs
    THEN fs \ {path}
    ELSE fs

InitHandler ==
    /\ hPc = "idle"
    /\ req = None
    /\ temp_path = None
    /\ files = {}
    /\ decoded = FALSE
    /\ coreInvoked = FALSE
    /\ response = 0
    /\ served = 0
    /\ nmsPc = "unused"
    /\ cands = <<>>
    /\ nmsKeep = <<>>
    /\ nmsOut = <<>>
    /\ nmsOut2 = <<>>
    /\ clsPc = "unused"
    /\ clsImage = <<0, 0>>
    /\ clsBox = <<0, 0, 0, 0>>
    /\ clsMetrics = NoMetrics
    /\ clsOut = None
    /\ pc = "unused"
    /\ image = NoImage
    /\ detected = <<>>
    /\ boxes = <<>>
    /\ hands_raised_count = 0
    /\ detections = <<>>
    /\ exits = <<>>
    /\ result = NoResult
    /\ exc = None

\* a POST /analyze arrives; line 110: temp_path = None
ReceiveRequest ==
    /\ hPc = "idle"
    /\ served < MaxRequests
    /\ req' \in RequestKinds
    /\ temp_path' = None
    /\ decoded' = FALSE
    /\ coreInvoked' = FALSE
    /\ response' = 0
    /\ hPc' = "validate"
    /\ UNCHANGED <<files, served>>
    /\ UNCHANGED <<nmsVars, clsVars, pipeVars>>

\* lines 112-114: 'image' not in request.files, which raises when the body is
\* over MAX_CONTENT_LENGTH (caught at line 156)
CheckUploadPresent ==
    /\ hPc = "validate"
    /\ IF req = "oversized"
       THEN response' = 500 /\ hPc' = "finally"
       ELSE IF req = "missing"
            THEN response' = 400 /\ hPc' = "finally"
            ELSE response' = response /\ hPc' = "filename"
    /\ UNCHANGED <<req, temp_path, files, decoded, coreInvoked, served>>
    /\ UNCHANGED <<nmsVars, clsVars, pipeVars>>

\* lines 116-119: file.filename == ''
CheckFilename ==
    /\ hPc = "filename"
    /\ IF req = "unnamed"
       THEN response' = 400 /\ hPc' = "finally"
       ELSE response' = response /\ hPc' = "decode"
    /\ UNCHANGED <<req, temp_path, files, decoded, coreInvoked, served>>
    /\ UNCHANGED <<nmsVars, clsVars, pipeVars>>

\* lines 121-129: file.read, cv2.imdecode, and the check of its result
ReadAndDecode ==
    /\ hPc = "decode"
    /\ decoded' = Decodes(req)
    /\ IF ImageIsNone(Decodes(req))
       THEN response' = 400 /\ hPc' = "finally"
       ELSE response' = response /\ hPc' = "mkstemp"
    /\ UNCHANGED <<req, temp_path, files, coreInvoked, served>>
    /\ UNCHANGED <<nmsVars, clsVars, pipeVars>>

\* lines 131-136: tempfile.mkstemp, which creates the file or raises without
\* creating one, then os.close and cv2.imwrite, which may raise
CreateTempFile ==
    /\ hPc = "mkstemp"
    /\ \/ \E name \in TempNames \ files :
             /\ temp_path' = name
             /\ files' = files \cup {name}
             /\ \/ hPc' = "core" /\ UNCHANGED response
                \/ hPc' = "finally" /\ response' = 500
       \/ /\ response' = 500
          /\ hPc' = "finally"
          /\ UNCHANGED <<temp_path, files>>
    /\ UNCHANGED <<req, decoded, coreInvoked, served>>
    /\ UNCHANGED <<nmsVars, clsVars, pipeVars>>

\* lines 138-140: HandCounter().process_image(temp_path) returns or raises
RunCore ==
    /\ hPc = "core"
    /\ coreInvoked' = TRUE
    /\ \/ /\ hPc' = "respond"
          /\ UNCHANGED response
       \/ /\ response' = 500
          /\ hPc' = "finally"
    /\ UNCHANGED <<req, temp_path, files, decoded, served>>
    /\ UNCHANGED <<nmsVars, clsVars, pipeVars>>

\* lines 142-157: annotate, encode and answer 200, or an exception and 500
BuildResponse ==
    /\ hPc = "respond"
    /\ response' \in {200, 500}
    /\ hPc' = "finally"
    /\ UNCHANGED <<req, temp_path, files, decoded, coreInvoked, served>>
    /\ UNCHANGED <<nmsVars, clsVars, pipeVars>>

\* lines 159-162: the finally block, after which the response leaves
Finally ==
    /\ hPc = "finally"
    /\ files' = FilesAfterCleanup(files, temp_path)
    /\ served' = served + 1
    /\ hPc' = "idle"
    /\ UNCHANGED <<req, temp_path, decoded, coreInvoked, response>>
    /\ UNCHANGED <<nmsVars, clsVars, pipeVars>>

NextHandler ==
    \/ ReceiveRequest
    \/ CheckUploadPresent
    \/ CheckFilename
    \/ ReadAndDecode
    \/ CreateTempFile
    \/ RunCore
    \/ BuildResponse
    \/ Finally

SpecHandler == InitHandler /\ [][NextHandler]_vars

TempFileRemoved ==
    /\ hPc = "idle" => files = {}
    /\ files \subseteq (IF temp_path = None THEN {} ELSE {temp_path})
    /\ hPc \in {"validate", "filename", "decode", "mkstemp"} => temp_path = None
    /\ req \in {"oversized", "missing", "unnamed", "undecodable"} =>
          (temp_path = None /\ files = {})

\* a request whose core ran and which was answered 500 has returned, after an
\* earlier request, and its temporary file is gone
TempFileRemovedWitness ==
    /\ hPc = "idle"
    /\ served >= 2
    /\ coreInvoked
    /\ response = 500
    /\ temp_path # None
    /\ files = {}

====
